---- MODULE Spec2Model ----
(***************************************************************************)
(* Order / payment lifecycle of the e-commerce backend                     *)
(* (src/unnamed/part_002): POST /placeorder, POST /create-cashfree-order,  *)
(* POST /verify-payment, PUT /admin/orders/:id, with the Order collection  *)
(* and the Cashfree payment gateway as the environment.                    *)
(*                                                                         *)
(* Conventions.                                                            *)
(*  - An order's _id is its index in the sequence `orders`; id 0 is a      *)
(*    well-formed id that matches no stored order.                         *)
(*  - A phone is a sequence of one-character strings; the empty sequence   *)
(*    stands for both JS `undefined` and "" (the code treats both with     *)
(*    `!phone`).  A payment method "" stands for undefined/"" likewise.    *)
(*  - A handler is one action per stretch of code between two awaits that  *)
(*    another request can observe: /verify-payment awaits the gateway and  *)
(*    then awaits the store update, so it is VerifyQuery followed by       *)
(*    VerifyWrite; the other handlers read only fields that never change   *)
(*    between their awaits and are one action each.                        *)
(*  - The accounts of src/unnamed/part_001 (POST /signup, /login,           *)
(*    /makeadmin) are the variables users and issued; a token is the       *)
(*    payload that was signed, and a payload /login never signed stands    *)
(*    for a token jwt.verify refuses.                                      *)
(*  - The store itself is taken to be reachable (no connection failures);  *)
(*    mongoose schema validation failures are modelled.                    *)
(***************************************************************************)
EXTENDS Integers, Sequences, FiniteSets, TLC

\* Bounds of the model.
MaxOrders == 2
MaxInflight == 1

VARIABLES
    orders,     \* the Order collection: sequence of documents, _id = index
    gateway,    \* the gateway's order_status per order id ("NONE": unknown)
    inflight,   \* per order id, the /verify-payment requests that saw PAID
                \* and await their store update
    now,        \* Date.now(), in ticks
    paidSeen,   \* history: ids for which some /verify-payment saw PAID
    last,       \* the response of the request that completed last
    users,      \* the User collection of src/unnamed/part_001, by email
    issued      \* the token payloads /login has signed

vars == <<orders, gateway, inflight, now, paidSeen, last, users, issued>>

----------------------------------------------------------------------------
\* Callers and tokens

NoToken == [email |-> "", role |-> "none"]
Alice == [email |-> "alice", role |-> "user"]
Bob == [email |-> "bob", role |-> "admin"]
Callers == {Alice, Bob}
Tokens == Callers \cup {NoToken}

\* authenticateToken: a request without a token is answered 401.
authenticateToken(tok) == tok # NoToken

\* Mutant of requireAdmin: every authenticated caller passes.
requireAdminAnyUser(tok) == TRUE

\* requireAdmin: req.user.role !== "admin" is answered 403.
requireAdmin(tok) == tok.role = "admin"

----------------------------------------------------------------------------
\* Request inputs

Phone10 == <<"9", "8", "7", "6", "5", "4", "3", "2", "1", "0">>
Phone5 == <<"1", "2", "3", "4", "5">>
Phone9 == <<"1", "2", "3", "4", "5", "6", "7", "8", "9">>
Phone11 == <<"1", "2", "3", "4", "5", "6", "7", "8", "9", "0", "1">>
Phone10Alpha == <<"1", "2", "3", "4", "5", "a", "b", "c", "d", "e">>
NoPhone == <<>>

Item(q, p) == [quantity |-> q, price |-> p, priceGiven |-> TRUE]
\* an item of the request body without a price property
ItemNoPrice(q) == [quantity |-> q, price |-> 0, priceGiven |-> FALSE]

Cart250 == <<Item(2, 100), Item(1, 50)>>

Body(its, given, ph, pm, tot, ps) ==
    [items |-> its, itemsGiven |-> given, phone |-> ph, paymentMethod |-> pm,
     totalAmount |-> tot, paymentStatus |-> ps]

\* The request bodies of the lifecycle specification.
Bodies ==
    { Body(Cart250, TRUE, Phone10, "COD", 1, "PAID"),
      Body(Cart250, TRUE, Phone10, "ONLINE", 1, "PAID"),
      Body(Cart250, TRUE, Phone5, "ONLINE", 250, "PENDING"),
      Body(<<>>, FALSE, Phone10, "COD", 250, "PENDING"),
      Body(<<>>, TRUE, Phone10, "COD", 250, "PENDING"),
      Body(Cart250, TRUE, Phone10, "", 250, "PENDING"),
      Body(Cart250, TRUE, Phone10, "UPI", 250, "PENDING") }

\* The request bodies of the input-sweep specification.
WideCarts ==
    { <<>>,
      <<Item(1, 0)>>,
      <<Item(3, 7)>>,
      <<Item(0, 5)>>,
      <<Item(-1, 5)>>,
      <<Item(2, -3)>>,
      <<ItemNoPrice(1)>>,
      Cart250,
      <<Item(1, 1), Item(2, 2), Item(3, 3)>> }
WidePhones == {NoPhone, Phone5, Phone9, Phone10, Phone11, Phone10Alpha}
WideMethods == {"", "COD", "ONLINE", "UPI"}
WideBodies ==
    { Body(c, g, ph, pm, tot, ps) :
        c \in WideCarts, g \in {TRUE}, ph \in WidePhones, pm \in WideMethods,
        tot \in {0, 999}, ps \in {"PENDING", "PAID"} }
    \cup { Body(<<>>, FALSE, Phone10, "COD", 0, "PENDING") }

AdminStatuses == {"Shipped"}
GatewayReplies == {"session", "nosession", "error"}

----------------------------------------------------------------------------
\* Responses

\* the body of a request that carries none, or whose body was never read
NoBody == Body(<<>>, FALSE, <<>>, "", 0, "")

\* An answer, logged with what the request it answers carried where the
\* handler read it: the caller (by), the status of an admin update, the body
\* of /placeorder; orders is the listing a GET returns.
Resp(op, id, code, success, msg, gw) ==
    [op |-> op, id |-> id, code |-> code, success |-> success, msg |-> msg,
     gwCalls |-> gw, by |-> NoToken, status |-> "", body |-> NoBody,
     orders |-> <<>>]

NoResp == Resp("none", 0, 0, FALSE, "", 0)

Unauthenticated(op, id) == Resp(op, id, 401, FALSE, "No token provided", 0)

----------------------------------------------------------------------------
\* State after construction: empty collection, gateway knows no order.

\* The User collection: email is unique, so a user is found by it.
Emails == {"alice", "bob", "root"}
NoUser == [password |-> <<>>, role |-> "none"]

GatewayIds == 0..MaxOrders

Init ==
    /\ orders = <<>>
    /\ gateway = [i \in GatewayIds |-> "NONE"]
    /\ inflight = [i \in GatewayIds |-> 0]
    /\ now = 0
    /\ paidSeen = {}
    /\ last = NoResp
    /\ users = [e \in Emails |-> NoUser]
    /\ issued = {}

----------------------------------------------------------------------------
\* POST /placeorder

RECURSIVE Reduce(_, _)
\* items.reduce((sum, item) => sum + item.price * item.quantity, 0), over the
\* first n items
Reduce(items, n) ==
    IF n = 0 THEN 0
    ELSE Reduce(items, n - 1) + items[n].price * items[n].quantity

ComputeTotal(items) == Reduce(items, Len(items))

\* an item without a price makes the product, and so the sum, NaN
TotalIsNaN(items) == \E i \in 1..Len(items) : ~items[i].priceGiven

\* Mutant of OrderTotal: the total the client sent is stored.
OrderTotalFromClient(body) == body.totalAmount

\* the totalAmount handed to new Order(...): computed from the items, the
\* body's own totalAmount is not read
OrderTotal(body) == ComputeTotal(body.items)

\* Mutant of InitialPaymentStatus: the body's paymentStatus is stored.
InitialPaymentStatusFromBody(body) == body.paymentStatus

\* paymentStatus: paymentMethod === "COD" ? "PENDING" : "PENDING"
InitialPaymentStatus(body) ==
    IF body.paymentMethod = "COD" THEN "PENDING" ELSE "PENDING"

\* new Order({userEmail, items, totalAmount, shippingAddress, paymentMethod,
\* paymentStatus}) with the schema defaults for status and createdAt
NewOrder(tok, body, t) ==
    [userEmail |-> tok.email,
     items |-> body.items,
     totalAmount |-> OrderTotal(body),
     phone |-> body.phone,
     paymentMethod |-> body.paymentMethod,
     paymentStatus |-> InitialPaymentStatus(body),
     status |-> "Processing",
     createdAt |-> t]

\* Schema validation run by save(): paymentMethod is one of the enum values
\* and the required Number totalAmount is not NaN.
SchemaValid(body) ==
    /\ body.paymentMethod \in {"COD", "ONLINE"}
    /\ ~TotalIsNaN(body.items)

\* Mutant of ItemsMissing: only an absent items property is refused.
ItemsMissingOnlyUndefined(body) == ~body.itemsGiven

\* !items || items.length === 0
ItemsMissing(body) == ~body.itemsGiven \/ Len(body.items) = 0

\* the answer of /placeorder, with the caller and the body it read
PlaceResp(tok, body, id, code, success, msg) ==
    [Resp("placeorder", id, code, success, msg, 0)
        EXCEPT !.by = tok, !.body = body]

PlaceOrder(tok, body, tick) ==
    /\ UNCHANGED <<gateway, inflight, paidSeen, users, issued>>
    /\ IF ~authenticateToken(tok)
       THEN /\ last' = Unauthenticated("placeorder", 0)
            /\ UNCHANGED <<orders, now>>
       ELSE IF ItemsMissing(body)
       THEN /\ last' = PlaceResp(tok, body, 0, 400, FALSE, "No items provided")
            /\ UNCHANGED <<orders, now>>
       ELSE IF body.paymentMethod = ""
       THEN /\ last' = PlaceResp(tok, body, 0, 400, FALSE, "Payment method required")
            /\ UNCHANGED <<orders, now>>
       ELSE IF ~SchemaValid(body)
       THEN /\ last' = PlaceResp(tok, body, 0, 500, FALSE, "validation failed")
            /\ UNCHANGED <<orders, now>>
       ELSE /\ Len(orders) < MaxOrders
            /\ orders' = Append(orders, NewOrder(tok, body, now + tick))
            /\ now' = now + tick
            /\ last' = PlaceResp(tok, body, Len(orders) + 1, 200, TRUE,
                                 IF body.paymentMethod = "COD"
                                 THEN "Order placed with Cash on Delivery"
                                 ELSE "Order created. Proceed to online payment")

----------------------------------------------------------------------------
\* POST /create-cashfree-order

\* Mutant of PhoneOk: a minimum length instead of an exact one.
PhoneOkAtLeast10(phone) == Len(phone) >= 10

\* !(!phone || phone.length !== 10)
PhoneOk(phone) == ~(Len(phone) = 0 \/ Len(phone) # 10)

\* Mutant of MethodAllowsGateway: the method is not looked at.
MethodAllowsGatewayAny(o) == TRUE

\* !(order.paymentMethod !== "ONLINE")
MethodAllowsGateway(o) == o.paymentMethod = "ONLINE"

\* the gateway registers the order when it answers with a session
GatewayCreate(gw, id) ==
    IF gw[id] = "NONE" THEN [gw EXCEPT ![id] = "ACTIVE"] ELSE gw

\* Mutant of CreatePaymentSession: a session that was created is recorded
\* on the order.
CreatePaymentSessionMarksOrder(tok, id, reply) ==
    /\ UNCHANGED <<inflight, now, paidSeen, users, issued>>
    /\ orders' = IF /\ authenticateToken(tok)
                    /\ id \in DOMAIN orders
                    /\ MethodAllowsGateway(orders[id])
                    /\ PhoneOk(orders[id].phone)
                    /\ reply = "session"
                 THEN [orders EXCEPT ![id].status = "Payment initiated"]
                 ELSE orders
    /\ IF ~authenticateToken(tok)
       THEN /\ last' = Unauthenticated("createsession", id)
            /\ UNCHANGED gateway
       ELSE IF id \notin DOMAIN orders
       THEN /\ last' = Resp("createsession", id, 404, FALSE, "Order not found", 0)
            /\ UNCHANGED gateway
       ELSE IF ~MethodAllowsGateway(orders[id])
       THEN /\ last' = Resp("createsession", id, 400, FALSE, "Invalid payment method", 0)
            /\ UNCHANGED gateway
       ELSE IF ~PhoneOk(orders[id].phone)
       THEN /\ last' = Resp("createsession", id, 400, FALSE, "Invalid phone number", 0)
            /\ UNCHANGED gateway
       ELSE IF reply = "error"
       THEN /\ last' = Resp("createsession", id, 500, FALSE, "cashfreeError", 1)
            /\ UNCHANGED gateway
       ELSE IF reply = "nosession"
       THEN /\ last' = Resp("createsession", id, 500, FALSE,
                            "Failed to create Cashfree payment session", 1)
            /\ UNCHANGED gateway
       ELSE /\ last' = Resp("createsession", id, 200, TRUE, "", 1)
            /\ gateway' = GatewayCreate(gateway, id)

\* Mutant of CreatePaymentSession: a gateway error is retried once, and the
\* second call succeeds.
CreatePaymentSessionRetries(tok, id, reply) ==
    /\ UNCHANGED <<orders, inflight, now, paidSeen, users, issued>>
    /\ IF ~authenticateToken(tok)
       THEN /\ last' = Unauthenticated("createsession", id)
            /\ UNCHANGED gateway
       ELSE IF id \notin DOMAIN orders
       THEN /\ last' = Resp("createsession", id, 404, FALSE, "Order not found", 0)
            /\ UNCHANGED gateway
       ELSE IF ~MethodAllowsGateway(orders[id])
       THEN /\ last' = Resp("createsession", id, 400, FALSE, "Invalid payment method", 0)
            /\ UNCHANGED gateway
       ELSE IF ~PhoneOk(orders[id].phone)
       THEN /\ last' = Resp("createsession", id, 400, FALSE, "Invalid phone number", 0)
            /\ UNCHANGED gateway
       ELSE IF reply = "error"
       THEN /\ last' = Resp("createsession", id, 200, TRUE, "", 2)
            /\ gateway' = GatewayCreate(gateway, id)
       ELSE IF reply = "nosession"
       THEN /\ last' = Resp("createsession", id, 500, FALSE,
                            "Failed to create Cashfree payment session", 1)
            /\ UNCHANGED gateway
       ELSE /\ last' = Resp("createsession", id, 200, TRUE, "", 1)
            /\ gateway' = GatewayCreate(gateway, id)

CreatePaymentSession(tok, id, reply) ==
    /\ UNCHANGED <<orders, inflight, now, paidSeen, users, issued>>
    /\ IF ~authenticateToken(tok)
       THEN /\ last' = Unauthenticated("createsession", id)
            /\ UNCHANGED gateway
       ELSE IF id \notin DOMAIN orders
       THEN /\ last' = Resp("createsession", id, 404, FALSE, "Order not found", 0)
            /\ UNCHANGED gateway
       ELSE IF ~MethodAllowsGateway(orders[id])
       THEN /\ last' = Resp("createsession", id, 400, FALSE, "Invalid payment method", 0)
            /\ UNCHANGED gateway
       ELSE IF ~PhoneOk(orders[id].phone)
       THEN /\ last' = Resp("createsession", id, 400, FALSE, "Invalid phone number", 0)
            /\ UNCHANGED gateway
       ELSE IF reply = "error"
       THEN /\ last' = Resp("createsession", id, 500, FALSE, "cashfreeError", 1)
            /\ UNCHANGED gateway
       ELSE IF reply = "nosession"
       THEN /\ last' = Resp("createsession", id, 500, FALSE,
                            "Failed to create Cashfree payment session", 1)
            /\ UNCHANGED gateway
       ELSE /\ last' = Resp("createsession", id, 200, TRUE, "", 1)
            /\ gateway' = GatewayCreate(gateway, id)

\* The customer completes the payment on the gateway's page.
CustomerPays(id) ==
    /\ gateway[id] = "ACTIVE"
    /\ gateway' = [gateway EXCEPT ![id] = "PAID"]
    /\ UNCHANGED <<orders, inflight, now, paidSeen, last, users, issued>>

----------------------------------------------------------------------------
\* POST /verify-payment

\* Mutant of IsPaid: any order the gateway knows counts as paid.
IsPaidAnyKnown(orderStatus) == orderStatus # "NONE"

\* paymentStatus === "PAID"
IsPaid(orderStatus) == orderStatus = "PAID"

\* Mutant of VerifyUpdate: an order the admin has already shipped is left as
\* it is.
VerifyUpdateUnlessShipped(o) ==
    IF o.status = "Shipped"
    THEN o
    ELSE [o EXCEPT !.paymentStatus = "PAID", !.status = "Confirmed"]

\* Mutant of VerifyUpdate: the update document replaces the stored one, so
\* the fields it does not name are lost.
VerifyUpdateReplacesDocument(o) ==
    [o EXCEPT !.paymentStatus = "PAID", !.status = "Confirmed",
              !.items = <<>>, !.totalAmount = 0]

\* Mutant of VerifyUpdate: the confirmation writes the status only.
VerifyUpdateStatusOnly(o) == [o EXCEPT !.status = "Confirmed"]

\* Mutant of VerifyUpdate: only paymentStatus is written by the update.
VerifyUpdatePaidOnly(o) == [o EXCEPT !.paymentStatus = "PAID"]

\* the update document {paymentStatus: "PAID", status: "Confirmed"}
VerifyUpdate(o) == [o EXCEPT !.paymentStatus = "PAID", !.status = "Confirmed"]

\* The gateway answers a status query for an order it knows, unless the call
\* fails (netOk = FALSE: network error, timeout, 5xx).
GatewayAnswers(id, netOk) == netOk /\ gateway[id] # "NONE"

\* Mutant of VerifyQuery: when the gateway cannot be reached the order is
\* marked paid all the same, and the error is reported.
VerifyQueryFabricates(tok, id, netOk) ==
    /\ UNCHANGED <<gateway, now, users, issued>>
    /\ orders' = IF /\ authenticateToken(tok)
                    /\ ~GatewayAnswers(id, netOk)
                    /\ id \in DOMAIN orders
                 THEN [orders EXCEPT ![id] = VerifyUpdate(@)]
                 ELSE orders
    /\ paidSeen' = IF /\ authenticateToken(tok)
                      /\ GatewayAnswers(id, netOk)
                      /\ gateway[id] = "PAID"
                   THEN paidSeen \cup {id}
                   ELSE paidSeen
    /\ IF ~authenticateToken(tok)
       THEN /\ last' = Unauthenticated("verify", id)
            /\ UNCHANGED inflight
       ELSE IF ~GatewayAnswers(id, netOk)
       THEN /\ last' = Resp("verify", id, 500, FALSE, "", 1)
            /\ UNCHANGED inflight
       ELSE IF IsPaid(gateway[id])
       THEN /\ inflight[id] < MaxInflight
            /\ inflight' = [inflight EXCEPT ![id] = @ + 1]
            /\ UNCHANGED last
       ELSE /\ last' = Resp("verify", id, 200, FALSE, "", 1)
            /\ UNCHANGED inflight

\* /verify-payment from the request to the await of the store update:
\* pgAxios.get and the test of order_status
VerifyQuery(tok, id, netOk) ==
    /\ UNCHANGED <<orders, gateway, now, users, issued>>
    /\ paidSeen' = IF /\ authenticateToken(tok)
                      /\ GatewayAnswers(id, netOk)
                      /\ gateway[id] = "PAID"
                   THEN paidSeen \cup {id}
                   ELSE paidSeen
    /\ IF ~authenticateToken(tok)
       THEN /\ last' = Unauthenticated("verify", id)
            /\ UNCHANGED inflight
       ELSE IF ~GatewayAnswers(id, netOk)
       THEN /\ last' = Resp("verify", id, 500, FALSE, "", 1)
            /\ UNCHANGED inflight
       ELSE IF IsPaid(gateway[id])
       THEN /\ inflight[id] < MaxInflight
            /\ inflight' = [inflight EXCEPT ![id] = @ + 1]
            /\ UNCHANGED last
       ELSE /\ last' = Resp("verify", id, 200, FALSE, "", 1)
            /\ UNCHANGED inflight

\* Mutant of VerifyWrite: an order that is already PAID is not confirmed again.
VerifyWriteOnce(id) ==
    /\ inflight[id] > 0
    /\ inflight' = [inflight EXCEPT ![id] = @ - 1]
    /\ UNCHANGED <<gateway, now, paidSeen, users, issued>>
    /\ IF id \in DOMAIN orders /\ orders[id].paymentStatus = "PAID"
       THEN /\ last' = Resp("verify", id, 200, FALSE, "", 1)
            /\ UNCHANGED orders
       ELSE /\ last' = Resp("verify", id, 200, TRUE, "", 1)
            /\ orders' = IF id \in DOMAIN orders
                         THEN [orders EXCEPT ![id] =
                                  [@ EXCEPT !.paymentStatus = "PAID",
                                            !.status = "Confirmed"]]
                         ELSE orders

\* Order.findByIdAndUpdate(orderId, {...}) and res.json({success: true});
\* an id that matches no document updates nothing and raises no error
VerifyWrite(id) ==
    /\ inflight[id] > 0
    /\ orders' = IF id \in DOMAIN orders
                 THEN [orders EXCEPT ![id] = VerifyUpdate(@)]
                 ELSE orders
    /\ inflight' = [inflight EXCEPT ![id] = @ - 1]
    /\ last' = Resp("verify", id, 200, TRUE, "", 1)
    /\ UNCHANGED <<gateway, now, paidSeen, users, issued>>

----------------------------------------------------------------------------
\* PUT /admin/orders/:id

\* Mutant of StatusUpdate: a shipped order is not taken back to Processing.
StatusUpdateForwardOnly(o, status) ==
    IF o.status = "Shipped" /\ status = "Processing"
    THEN o
    ELSE [o EXCEPT !.status = status]

\* Mutant of StatusUpdate: the update also resets paymentStatus.
StatusUpdateResetPayment(o, status) ==
    [o EXCEPT !.status = status, !.paymentStatus = "PENDING"]

\* the update document {status}
StatusUpdate(o, status) == [o EXCEPT !.status = status]

\* the answer of an admin route, with the caller and the status it sent
AdminResp(tok, op, id, code, success, msg, status) ==
    [Resp(op, id, code, success, msg, 0) EXCEPT !.by = tok, !.status = status]

AdminUpdate(tok, id, status) ==
    /\ UNCHANGED <<gateway, inflight, now, paidSeen, users, issued>>
    /\ IF ~authenticateToken(tok)
       THEN /\ last' = Unauthenticated("adminupdate", id)
            /\ UNCHANGED orders
       ELSE IF ~requireAdmin(tok)
       THEN /\ last' = AdminResp(tok, "adminupdate", id, 403, FALSE,
                                  "Admin access required", "")
            /\ UNCHANGED orders
       ELSE /\ orders' = IF id \in DOMAIN orders
                         THEN [orders EXCEPT ![id] = StatusUpdate(@, status)]
                         ELSE orders
            /\ last' = AdminResp(tok, "adminupdate", id, 200, TRUE, "", status)

----------------------------------------------------------------------------
\* GET /orders and GET /admin/orders

\* Mutant of OwnedBy: the filter is empty.
OwnedByAnyone(tok) == DOMAIN orders

\* the ids matching the filter {userEmail}
OwnedBy(tok) == {id \in DOMAIN orders : orders[id].userEmail = tok.email}

\* the ids matching the filter {}
AllIds == DOMAIN orders

\* the arrangements of the ids of S in a sequence, each id once
Orderings(S) ==
    {f \in [1..Cardinality(S) -> S] :
        \A i, j \in 1..Cardinality(S) : i # j => f[i] # f[j]}

\* .sort({createdAt: -1}): newest first; the store fixes no order among
\* documents of equal createdAt
SortedByCreatedAtDesc(S) ==
    {f \in Orderings(S) :
        \A i \in 1..(Cardinality(S) - 1) :
            orders[f[i]].createdAt >= orders[f[i + 1]].createdAt}

\* the documents of a query result, each with its _id
Docs(f) == [i \in DOMAIN f |-> [id |-> f[i], doc |-> orders[f[i]]]]

\* res.json({success: true, orders})
ListResp(tok, op, f) ==
    [Resp(op, 0, 200, TRUE, "", 0) EXCEPT !.by = tok, !.orders = Docs(f)]

ListOrders(tok) ==
    /\ UNCHANGED <<orders, gateway, inflight, now, paidSeen, users, issued>>
    /\ IF ~authenticateToken(tok)
       THEN last' = Unauthenticated("orders", 0)
       ELSE \E f \in SortedByCreatedAtDesc(OwnedBy(tok)) :
                last' = ListResp(tok, "orders", f)

AdminListOrders(tok) ==
    /\ UNCHANGED <<orders, gateway, inflight, now, paidSeen, users, issued>>
    /\ IF ~authenticateToken(tok)
       THEN last' = Unauthenticated("adminorders", 0)
       ELSE IF ~requireAdmin(tok)
       THEN last' = AdminResp(tok, "adminorders", 0, 403, FALSE,
                              "Admin access required", "")
       ELSE \E f \in SortedByCreatedAtDesc(AllIds) :
                last' = ListResp(tok, "adminorders", f)

----------------------------------------------------------------------------
\* src/unnamed/part_001: POST /signup, POST /login, POST /makeadmin

\* bcrypt.hash(password, 10) and bcrypt.compare(password, user.password)
Hash(password) == <<"bcrypt", password>>
Compare(password, hashed) == hashed = Hash(password)

\* a request body of /signup; "" stands for a property that is not given
SignupBody(username, email, password, role) ==
    [username |-> username, email |-> email, password |-> password,
     role |-> role]

\* Mutant of SignupRole: a role given in the request body is stored.
SignupRoleFromBody(body) == IF body.role = "" THEN "user" ELSE body.role

\* new User({username, email, password: hashedPassword, role: "user"})
SignupRole(body) == "user"

\* jwt.verify(token, JWT_SECRET, ...): only what /login signed is accepted
TokenValid(tok) == tok \in issued

UserResp(tok, op, code, success, msg) ==
    [Resp(op, 0, code, success, msg, 0) EXCEPT !.by = tok]

Signup(body) ==
    /\ UNCHANGED <<orders, gateway, inflight, now, paidSeen, issued>>
    /\ IF body.username = "" \/ body.email = "" \/ body.password = ""
       THEN /\ last' = UserResp(NoToken, "signup", 400, FALSE,
                                "All fields are required")
            /\ UNCHANGED users
       ELSE IF users[body.email] # NoUser
       THEN /\ last' = UserResp(NoToken, "signup", 400, FALSE,
                                "Email already exists")
            /\ UNCHANGED users
       ELSE /\ users' = [users EXCEPT ![body.email] =
                            [password |-> Hash(body.password),
                             role |-> SignupRole(body)]]
            /\ last' = UserResp(NoToken, "signup", 200, TRUE,
                                "User registered successfully")

Login(email, password) ==
    /\ UNCHANGED <<orders, gateway, inflight, now, paidSeen, users>>
    /\ IF email = "" \/ password = ""
       THEN /\ last' = UserResp(NoToken, "login", 400, FALSE,
                                "Email and password required")
            /\ UNCHANGED issued
       ELSE IF users[email] = NoUser
       THEN /\ last' = UserResp(NoToken, "login", 400, FALSE, "Invalid email")
            /\ UNCHANGED issued
       ELSE IF ~Compare(password, users[email].password)
       THEN /\ last' = UserResp(NoToken, "login", 400, FALSE,
                                "Invalid password")
            /\ UNCHANGED issued
       ELSE LET token == [email |-> email, role |-> users[email].role] IN
            /\ issued' = issued \cup {token}
            /\ last' = UserResp(token, "login", 200, TRUE, "")

MakeAdmin(tok, email) ==
    /\ UNCHANGED <<orders, gateway, inflight, now, paidSeen, issued>>
    /\ IF ~authenticateToken(tok)
       THEN /\ last' = Unauthenticated("makeadmin", 0)
            /\ UNCHANGED users
       ELSE IF ~TokenValid(tok)
       THEN /\ last' = UserResp(tok, "makeadmin", 403, FALSE, "Invalid token")
            /\ UNCHANGED users
       ELSE IF ~requireAdmin(tok)
       THEN /\ last' = UserResp(tok, "makeadmin", 403, FALSE,
                                "Admin access required")
            /\ UNCHANGED users
       ELSE IF users[email] = NoUser
       THEN /\ last' = UserResp(tok, "makeadmin", 404, FALSE, "User not found")
            /\ UNCHANGED users
       ELSE /\ users' = [users EXCEPT ![email].role = "admin"]
            /\ last' = UserResp(tok, "makeadmin", 200, TRUE, "is now an admin")

----------------------------------------------------------------------------
\* Specifications

\* ids a request can name: the stored orders and one id that matches none
ReqIds == 0..Len(orders)

\* Spec: the lifecycle of up to MaxOrders orders.  Alice is the customer, Bob
\* the administrator; every request but /placeorder comes from either of them
\* or carries no token.  The clock advances between two orders.
Shoppers == {Alice, NoToken}

Next ==
    \/ \E tok \in Shoppers, body \in Bodies : PlaceOrder(tok, body, 1)
    \/ \E tok \in Tokens, id \in ReqIds, reply \in GatewayReplies :
           CreatePaymentSession(tok, id, reply)
    \/ \E id \in ReqIds : CustomerPays(id)
    \/ \E tok \in Tokens, id \in ReqIds, netOk \in BOOLEAN :
           VerifyQuery(tok, id, netOk)
    \/ \E id \in ReqIds : VerifyWrite(id)
    \/ \E tok \in Tokens, id \in ReqIds, status \in AdminStatuses :
           AdminUpdate(tok, id, status)

Spec == Init /\ [][Next]_vars

\* SpecInputs: one order, placed by any caller with any of the request bodies
\* of WideBodies, then taken through the same operations.
NextInputs ==
    \/ /\ orders = <<>>
       /\ \E tok \in Tokens, body \in WideBodies, tick \in {0, 1} :
              PlaceOrder(tok, body, tick)
    \/ \E tok \in Tokens, id \in ReqIds, reply \in GatewayReplies :
           CreatePaymentSession(tok, id, reply)
    \/ \E id \in ReqIds : CustomerPays(id)
    \/ \E tok \in Tokens, id \in ReqIds, netOk \in BOOLEAN :
           VerifyQuery(tok, id, netOk)
    \/ \E id \in ReqIds : VerifyWrite(id)
    \/ \E tok \in Tokens, id \in ReqIds, status \in AdminStatuses :
           AdminUpdate(tok, id, status)

SpecInputs == Init /\ [][NextInputs]_vars

\* SpecList: orders of two owners, placed at equal or later times, updated
\* by the admin and read back through the two listings.
ListBodies ==
    { Body(Cart250, TRUE, Phone10, "COD", 250, "PENDING"),
      Body(<<>>, TRUE, Phone10, "COD", 0, "PENDING") }
ListStatuses == {"Shipped", "Processing"}

NextList ==
    \/ \E tok \in Tokens, body \in ListBodies, tick \in {0, 1} :
           PlaceOrder(tok, body, tick)
    \/ \E tok \in Tokens, id \in ReqIds, status \in ListStatuses :
           AdminUpdate(tok, id, status)
    \/ \E tok \in Tokens : ListOrders(tok)
    \/ \E tok \in Tokens : AdminListOrders(tok)

SpecList == Init /\ [][NextList]_vars

\* SpecOthers: Alice places the orders; every payment request for them comes
\* from Mallory, another authenticated user, who owns none of them.
Mallory == [email |-> "mallory", role |-> "user"]

NextOthers ==
    \/ \E body \in Bodies : PlaceOrder(Alice, body, 1)
    \/ \E id \in ReqIds, reply \in GatewayReplies :
           CreatePaymentSession(Mallory, id, reply)
    \/ \E id \in ReqIds : CustomerPays(id)
    \/ \E id \in ReqIds, netOk \in BOOLEAN : VerifyQuery(Mallory, id, netOk)
    \/ \E id \in ReqIds : VerifyWrite(id)

SpecOthers == Init /\ [][NextOthers]_vars

\* SpecUsers: the accounts.  The store starts empty or with the one admin
\* account "root"; anyone signs up and logs in, and /makeadmin is called
\* with no token, with a token /login signed, or with an admin payload that
\* was never signed.
SeededUsers ==
    [e \in Emails |->
        IF e = "root"
        THEN [password |-> Hash("r"), role |-> "admin"]
        ELSE NoUser]
SignupBodies ==
    { SignupBody(u, e, pw, r) :
        u \in {"", "name"}, e \in {"", "alice", "bob"}, pw \in {"", "p"},
        r \in {"", "admin"} }
LoginPasswords == {"", "p", "r", "x"}
PresentedTokens ==
    issued \cup {NoToken} \cup {[email |-> e, role |-> "admin"] : e \in Emails}

InitUsers ==
    /\ orders = <<>>
    /\ gateway = [i \in GatewayIds |-> "NONE"]
    /\ inflight = [i \in GatewayIds |-> 0]
    /\ now = 0
    /\ paidSeen = {}
    /\ last = NoResp
    /\ users \in {[e \in Emails |-> NoUser], SeededUsers}
    /\ issued = {}

NextUsers ==
    \/ \E body \in SignupBodies : Signup(body)
    \/ \E email \in Emails \cup {""}, password \in LoginPasswords :
           Login(email, password)
    \/ \E tok \in PresentedTokens, email \in Emails : MakeAdmin(tok, email)

SpecUsers == InitUsers /\ [][NextUsers]_vars

----------------------------------------------------------------------------
\* Properties

\* A step that answers a request of kind op (the answer differs from the one
\* before it; a step that repeats the same answer changes it to itself).
Answers(op) == last' # last /\ last'.op = op

\* C1: an order is PAID only if an earlier /verify-payment for it saw the
\* gateway report PAID; a /verify-payment call answers success = true only
\* for an id the gateway reports PAID, and a call that answers anything else
\* (the gateway reported another status, or the call failed) leaves every
\* stored order as it was.
C1_PaidOnlyAfterGatewayPaid ==
    /\ [](\A id \in DOMAIN orders :
            orders[id].paymentStatus = "PAID" => id \in paidSeen)
    /\ []((last.op = "verify" /\ last.success) => gateway[last.id] = "PAID")
    /\ [][(Answers("verify") /\ gateway[last'.id] # "PAID")
          => ~last'.success /\ orders' = orders]_vars

\* C1 witness: one order is PAID while a verification of another order, not
\* paid at the gateway, has just been answered success = false.
C1_Witness ==
    \E id, other \in DOMAIN orders :
        /\ orders[id].paymentStatus = "PAID"
        /\ id \in paidSeen
        /\ other # id
        /\ gateway[other] = "ACTIVE"
        /\ orders[other].paymentStatus = "PENDING"
        /\ last = Resp("verify", other, 200, FALSE, "", 1)

\* C2: paymentStatus is monotone: an order that is PAID is still stored and
\* still PAID after every step.
C2_PaidIsStable ==
    [][\A id \in DOMAIN orders :
          orders[id].paymentStatus = "PAID"
          => id \in DOMAIN orders' /\ orders'[id].paymentStatus = "PAID"]_vars

\* C2 witness: a PAID order whose status an administrator has since
\* overwritten is still PAID.
C2_Witness ==
    \E id \in DOMAIN orders :
        /\ orders[id].paymentStatus = "PAID"
        /\ orders[id].status = "Shipped"
        /\ last = AdminResp(Bob, "adminupdate", id, 200, TRUE, "", "Shipped")

\* C3: the order a successful /placeorder stores has paymentStatus PENDING,
\* for either payment method and whatever paymentStatus the body carries
\* (the bodies carry PENDING and PAID).
C3_NewOrderIsPending ==
    [][Len(orders') > Len(orders)
       => /\ Len(orders') = Len(orders) + 1
          /\ orders'[Len(orders')].paymentStatus = "PENDING"
          /\ orders'[Len(orders')].paymentMethod \in {"COD", "ONLINE"}
          /\ last'.op = "placeorder" /\ last'.success]_vars

\* C3 witness: an ONLINE order has just been stored, PENDING.
C3_Witness ==
    /\ last.op = "placeorder" /\ last.id = 1 /\ last.success
    /\ last.msg = "Order created. Proceed to online payment"
    /\ last.body.paymentStatus = "PAID"
    /\ orders[1].paymentMethod = "ONLINE"
    /\ orders[1].paymentStatus = "PENDING"

\* The sum of quantity * price over the line items, from the head.
RECURSIVE SumLineItems(_)
SumLineItems(items) ==
    IF items = <<>> THEN 0
    ELSE Head(items).quantity * Head(items).price + SumLineItems(Tail(items))

\* C4: every stored order's totalAmount is the sum over its line items of
\* quantity * price, whatever total the request carried.
C4_TotalIsSumOfItems ==
    \A id \in DOMAIN orders :
        orders[id].totalAmount = SumLineItems(orders[id].items)

\* C4 witness: the order of 2 @ 100 and 1 @ 50 is stored with total 250 (the
\* requests carry a total of 0 or 999).
C4_Witness ==
    /\ last.op = "placeorder" /\ last.success
    /\ Len(orders) = 1
    /\ orders[1].items = Cart250
    /\ orders[1].totalAmount = 250

\* C5: a /verify-payment call that saw the gateway report PAID answers
\* success = true and leaves the order PAID, also when the order was PAID
\* already (the second of two calls in a row); no call answers
\* success = false for an order the gateway reports PAID.
C5_VerifyIdempotent ==
    [][/\ \A id \in DOMAIN orders :
            inflight'[id] < inflight[id]
            => /\ last' = Resp("verify", id, 200, TRUE, "", 1)
               /\ orders'[id].paymentStatus = "PAID"
       /\ (Answers("verify") /\ last'.code = 200 /\ ~last'.success)
            => gateway[last'.id] # "PAID"]_vars

\* C5 witness: a first call has answered success = true for an order that is
\* now PAID, and a second call for it has seen PAID and awaits its update.
C5_Witness ==
    \E id \in DOMAIN orders :
        /\ orders[id].paymentStatus = "PAID"
        /\ orders[id].status = "Confirmed"
        /\ last = Resp("verify", id, 200, TRUE, "", 1)
        /\ inflight[id] > 0

\* C6: once an order is PAID, a later /verify-payment call for it that the
\* gateway answers changes nothing in the store (a status that an
\* administrator set after the confirmation included) and answers
\* success = true.
C6_VerifyAfterPaidIsNoOp ==
    [][\A id \in DOMAIN orders :
          (orders[id].paymentStatus = "PAID" /\ inflight'[id] < inflight[id])
          => /\ orders' = orders
             /\ last' = Resp("verify", id, 200, TRUE, "", 1)]_vars

\* C7: the update of /verify-payment is one step: whenever a step changes an
\* order's paymentStatus, or completes a verification that saw PAID, the
\* order is PAID and "Confirmed" together right after that step.
C7_VerifyUpdateIsAtomic ==
    [][\A id \in DOMAIN orders :
          (\/ orders'[id].paymentStatus # orders[id].paymentStatus
           \/ inflight'[id] < inflight[id])
          => /\ orders'[id].paymentStatus = "PAID"
             /\ orders'[id].status = "Confirmed"]_vars

\* C7 witness: the update has just been applied to a PENDING order, nothing
\* of that request is left in flight.
C7_Witness ==
    \E id \in DOMAIN orders :
        /\ last = Resp("verify", id, 200, TRUE, "", 1)
        /\ inflight[id] = 0
        /\ orders[id].paymentStatus = "PAID"
        /\ orders[id].status = "Confirmed"
        /\ orders[id].paymentMethod = "ONLINE"

\* C8: for a stored order whose paymentMethod is not ONLINE, an
\* authenticated /create-cashfree-order is answered 400 "Invalid payment
\* method" without a gateway call and changes neither the order nor the
\* gateway; so the gateway never knows such an order.
C8_NonOnlineOrderIsRejected ==
    /\ [](\A id \in DOMAIN orders :
            orders[id].paymentMethod # "ONLINE" => gateway[id] = "NONE")
    /\ [][(/\ Answers("createsession")
           /\ last'.code # 401
           /\ last'.id \in DOMAIN orders
           /\ orders[last'.id].paymentMethod # "ONLINE")
          => /\ last' = Resp("createsession", last'.id, 400, FALSE,
                             "Invalid payment method", 0)
             /\ orders' = orders
             /\ gateway' = gateway]_vars

\* C8 witness: a session was asked for a COD order and refused.
C8_Witness ==
    \E id \in DOMAIN orders :
        /\ orders[id].paymentMethod = "COD"
        /\ last = Resp("createsession", id, 400, FALSE, "Invalid payment method", 0)

\* C9: for an ONLINE order whose phone is absent or not of length 10, an
\* authenticated /create-cashfree-order is answered 400 "Invalid phone
\* number" without a gateway call; for a phone of length 10 the gateway is
\* called.  So the gateway only knows orders with a phone of length 10.
C9_PhoneLengthIsChecked ==
    /\ [](\A id \in DOMAIN orders :
            gateway[id] # "NONE" => Len(orders[id].phone) = 10)
    /\ [][(/\ Answers("createsession")
           /\ last'.code # 401
           /\ last'.id \in DOMAIN orders
           /\ orders[last'.id].paymentMethod = "ONLINE")
          => IF Len(orders[last'.id].phone) # 10
             THEN /\ last' = Resp("createsession", last'.id, 400, FALSE,
                                  "Invalid phone number", 0)
                  /\ orders' = orders
                  /\ gateway' = gateway
             ELSE last'.gwCalls = 1]_vars

\* C9 witness: a session was asked for an ONLINE order with phone "12345"
\* and refused.
C9_Witness ==
    \E id \in DOMAIN orders :
        /\ orders[id].paymentMethod = "ONLINE"
        /\ orders[id].phone = Phone5
        /\ last = Resp("createsession", id, 400, FALSE, "Invalid phone number", 0)

\* The decimal digits.
Digits == {"0", "1", "2", "3", "4", "5", "6", "7", "8", "9"}

\* A phone of exactly ten decimal digits.
TenDigits(phone) ==
    Len(phone) = 10 /\ \A i \in 1..Len(phone) : phone[i] \in Digits

\* C10: /create-cashfree-order calls the gateway only for an order whose
\* phone is exactly ten decimal digits.
C10_GatewayOnlyForTenDigits ==
    \A id \in DOMAIN orders :
        (last.op = "createsession" /\ last.id = id /\ last.gwCalls > 0)
        => TenDigits(orders[id].phone)

\* C11: /create-cashfree-order never changes a stored order: whatever it
\* answers (session created, gateway error, reply without session, 404, 400,
\* 401), the collection is the same after the step as before it.
C11_CreateSessionLeavesOrders ==
    [][Answers("createsession") => orders' = orders]_vars

\* C11 witness: a session has just been created for an order, which is
\* still PENDING and "Processing" while the gateway now knows it.
C11_Witness ==
    \E id \in DOMAIN orders :
        /\ last = Resp("createsession", id, 200, TRUE, "", 1)
        /\ gateway[id] = "ACTIVE"
        /\ orders[id].paymentStatus = "PENDING"
        /\ orders[id].status = "Processing"

\* C15: an authenticated POST /placeorder whose items are missing or empty,
\* or whose paymentMethod is absent, is answered 400 without success, and the
\* collection is the same after the call as before it; a call without a
\* token is answered 401 and stores nothing either.
C15_InvalidOrderIsRejected ==
    [][Answers("placeorder") =>
          /\ (last'.by # NoToken /\
              (~last'.body.itemsGiven \/ Len(last'.body.items) = 0
                  \/ last'.body.paymentMethod = ""))
             => (last'.code = 400 /\ ~last'.success /\ orders' = orders)
          /\ last'.code = 401 => orders' = orders]_vars

\* C15 witness: with an order already stored, a request with an empty items
\* array has just been refused.
C15_Witness ==
    /\ Len(orders) >= 1
    /\ last.op = "placeorder" /\ last.code = 400 /\ last.by = Alice
    /\ last.body.itemsGiven /\ last.body.items = <<>>

\* C16: a request that is answered with an error (status 400 or above)
\* leaves every stored order as it was, in particular a /verify-payment
\* whose gateway call failed; and an order becomes PAID only in a step that
\* answers a /verify-payment with success while the gateway reports PAID.
C16_FailureLeavesOrdersAlone ==
    [][/\ (last' # last /\ last'.code >= 400) => orders' = orders
       /\ \A id \in DOMAIN orders' :
             (/\ orders'[id].paymentStatus = "PAID"
              /\ (id \notin DOMAIN orders \/ orders[id].paymentStatus # "PAID"))
             => (/\ gateway[id] = "PAID"
                 /\ last'.op = "verify" /\ last'.id = id
                 /\ last'.success /\ last'.code = 200)]_vars

\* C16 witness: the customer has paid at the gateway, a /verify-payment for
\* the order has just failed at the gateway call, and the order is PENDING.
C16_Witness ==
    \E id \in DOMAIN orders :
        /\ last = Resp("verify", id, 500, FALSE, "", 1)
        /\ gateway[id] = "PAID"
        /\ orders[id].paymentStatus = "PENDING"
        /\ inflight[id] = 0

\* C17: no request calls the gateway more than once.  A
\* /create-cashfree-order that answers with success has made its one call and
\* the gateway holds a session for the order afterwards; one that has made
\* its call and leaves the gateway without a session for the order (the call
\* failed or the reply had no payment_session_id) answers 500 without
\* success.  A /verify-payment answers with success only when the gateway
\* reports PAID, and answers 500 when the gateway has no such order.
C17_GatewayCalledAtMostOnce ==
    [][/\ last'.gwCalls <= 1
       /\ (Answers("createsession") /\ last'.success)
          => (last'.gwCalls = 1 /\ gateway'[last'.id] # "NONE")
       /\ (Answers("createsession") /\ last'.gwCalls = 1
             /\ gateway'[last'.id] = "NONE")
          => (last'.code = 500 /\ ~last'.success)
       /\ (Answers("verify") /\ last'.success)
          => (last'.gwCalls = 1 /\ gateway[last'.id] = "PAID")
       /\ (Answers("verify") /\ last'.code # 401 /\ gateway[last'.id] = "NONE")
          => (last'.code = 500 /\ ~last'.success /\ last'.gwCalls = 1)]_vars

\* C17 witness: the gateway call of a /create-cashfree-order for a stored
\* ONLINE order has just failed; the caller got the 500 and the gateway has
\* no session for the order.
C17_Witness ==
    \E id \in DOMAIN orders :
        /\ last = Resp("createsession", id, 500, FALSE, "cashfreeError", 1)
        /\ gateway[id] = "NONE"
        /\ orders[id].paymentMethod = "ONLINE"

\* C18: under every interleaving of /verify-payment and PUT
\* /admin/orders/:id, a successful admin update changes nothing but the
\* status of its one order, which becomes the status it was given; the write
\* of a /verify-payment changes nothing but paymentStatus and status of its
\* one order, which become PAID and Confirmed; and once some /verify-payment
\* has seen the gateway report PAID for an order and no write for it is
\* pending, the order's paymentStatus is PAID.
C18_ConcurrentWritesKeepPaid ==
    /\ [](\A id \in paidSeen :
             inflight[id] = 0 =>
                 (id \in DOMAIN orders /\ orders[id].paymentStatus = "PAID"))
    /\ [][/\ (Answers("adminupdate") /\ last'.success
                 /\ last'.id \in DOMAIN orders)
             => orders' = [orders EXCEPT ![last'.id].status = last'.status]
          /\ \A id \in DOMAIN orders :
                inflight'[id] < inflight[id]
                => orders' = [orders EXCEPT ![id].paymentStatus = "PAID",
                                            ![id].status = "Confirmed"]]_vars

\* C18 witness: the admin update of an order has landed between the gateway
\* query of a /verify-payment, which saw PAID, and its write.
C18_Witness ==
    \E id \in DOMAIN orders :
        /\ id \in paidSeen
        /\ inflight[id] > 0
        /\ last = AdminResp(Bob, "adminupdate", id, 200, TRUE, "", "Shipped")
        /\ orders[id].status = "Shipped"
        /\ orders[id].paymentStatus = "PENDING"

\* C19: in every reachable state a stored order whose paymentMethod is COD
\* has paymentStatus PENDING, and the gateway has no session for it.
C19_CodStaysPending ==
    \A id \in DOMAIN orders :
        orders[id].paymentMethod = "COD"
        => (orders[id].paymentStatus = "PENDING" /\ gateway[id] = "NONE")

\* C19 witness: a /verify-payment naming a COD order has just been answered
\* (the gateway does not know the order), after a /create-cashfree-order for
\* it had been refused; the order is PENDING.
C19_Witness ==
    \E id \in DOMAIN orders :
        /\ orders[id].paymentMethod = "COD"
        /\ last = Resp("verify", id, 500, FALSE, "", 1)
        /\ orders[id].paymentStatus = "PENDING"
        /\ \E other \in DOMAIN orders : gateway[other] = "PAID"

\* C20: every line item of every stored order has quantity > 0 and
\* price >= 0, and so the order's totalAmount is not negative.
C20_StoredItemsArePositive ==
    \A id \in DOMAIN orders :
        /\ \A i \in 1..Len(orders[id].items) :
              /\ orders[id].items[i].quantity > 0
              /\ orders[id].items[i].price >= 0
        /\ orders[id].totalAmount >= 0

\* C12: a GET /orders that answers with success returns the stored orders
\* whose userEmail is the caller's, each once, as they are stored, and no
\* other; the sequence is ordered by createdAt descending.
C12_ListsOwnOrdersNewestFirst ==
    [][(Answers("orders") /\ last'.success) =>
          LET l == last'.orders IN
          /\ {l[i].id : i \in DOMAIN l} =
                 {id \in DOMAIN orders : orders[id].userEmail = last'.by.email}
          /\ \A i, j \in DOMAIN l : i # j => l[i].id # l[j].id
          /\ \A i \in DOMAIN l : l[i].doc = orders[l[i].id]
          /\ \A i \in DOMAIN l : l[i].doc.userEmail = last'.by.email
          /\ \A i \in 1..(Len(l) - 1) :
                l[i].doc.createdAt >= l[i + 1].doc.createdAt]_vars

\* C12 witness: Alice has just listed her orders and got her one order,
\* while the store also holds an order of Bob's.
C12_Witness ==
    /\ last.op = "orders" /\ last.success /\ last.by = Alice
    /\ Len(last.orders) = 1
    /\ Len(orders) = 2
    /\ \E id \in DOMAIN orders : orders[id].userEmail = Bob.email

\* C13: GET /admin/orders and PUT /admin/orders/:id answer with success only
\* to a caller whose role is admin; to an authenticated caller of another
\* role they answer 403 without success; and an answer without success
\* carries no orders and leaves every stored order as it was.
C13_AdminRoutesNeedAdmin ==
    [][(last' # last /\ last'.op \in {"adminorders", "adminupdate"}) =>
          /\ last'.success => last'.by.role = "admin"
          /\ (last'.by \in Callers /\ last'.by.role # "admin")
             => (last'.code = 403 /\ ~last'.success)
          /\ ~last'.success => (last'.orders = <<>> /\ orders' = orders)]_vars

\* C13 witness: Alice, a user, has just been refused the status update of a
\* stored order, which still has the status it was created with.
C13_Witness ==
    \E id \in DOMAIN orders :
        /\ last = AdminResp(Alice, "adminupdate", id, 403, FALSE,
                            "Admin access required", "")
        /\ orders[id].status = "Processing"
        /\ \E other \in DOMAIN orders : orders[other].status = "Shipped"

\* C14: a PUT /admin/orders/:id by an admin for a stored order answers with
\* success and changes the collection in exactly one place: the order's
\* status becomes the status of the request, whatever it was; and a listing
\* answered right after the update shows the order with that status.
C14_StatusIsOverwritten ==
    [][/\ (Answers("adminupdate") /\ last'.by \in Callers
              /\ last'.by.role = "admin" /\ last'.id \in DOMAIN orders)
          => /\ last'.success
             /\ orders' = [orders EXCEPT ![last'.id].status = last'.status]
       /\ (/\ last.op = "adminupdate" /\ last.success
           /\ last' # last /\ last'.op \in {"orders", "adminorders"})
          => \A i \in DOMAIN last'.orders :
                last'.orders[i].id = last.id
                => last'.orders[i].doc.status = last.status]_vars

\* C14 witness: the admin has taken a shipped order back to Processing while
\* another order stays Shipped.
C14_Witness ==
    \E id, other \in DOMAIN orders :
        /\ id # other
        /\ last = AdminResp(Bob, "adminupdate", id, 200, TRUE, "", "Processing")
        /\ orders[id].status = "Processing"
        /\ orders[other].status = "Shipped"

\* C21: in every step every stored order stays stored under its id, with the
\* same userEmail, items, totalAmount, shipping phone, paymentMethod and
\* createdAt; only paymentStatus and status of a stored order ever change.
C21_OrderFieldsAreImmutable ==
    [][\A id \in DOMAIN orders :
          /\ id \in DOMAIN orders'
          /\ orders'[id].userEmail = orders[id].userEmail
          /\ orders'[id].items = orders[id].items
          /\ orders'[id].totalAmount = orders[id].totalAmount
          /\ orders'[id].phone = orders[id].phone
          /\ orders'[id].paymentMethod = orders[id].paymentMethod
          /\ orders'[id].createdAt = orders[id].createdAt]_vars

\* C21 witness: an order has been through session creation, payment,
\* confirmation and an admin update (it is PAID and Shipped), a later order
\* is stored after it, and it still has what it was created with.
C21_Witness ==
    /\ Len(orders) = 2
    /\ orders[1].paymentStatus = "PAID"
    /\ orders[1].status = "Shipped"
    /\ gateway[1] = "PAID"
    /\ orders[1].userEmail = Alice.email
    /\ orders[1].items = Cart250
    /\ orders[1].totalAmount = 250
    /\ orders[1].paymentMethod = "ONLINE"
    /\ orders[1].createdAt = 1
    /\ orders[2].createdAt = 2

\* C22: a /verify-payment that answers success = true leaves an order with
\* the id of the request stored with paymentStatus PAID; and a
\* /verify-payment for an id that matches no stored order is not answered
\* with success.
C22_VerifySuccessMeansStoredPaid ==
    [][Answers("verify") =>
          /\ last'.success
             => (/\ last'.id \in DOMAIN orders'
                 /\ orders'[last'.id].paymentStatus = "PAID")
          /\ last'.id \notin DOMAIN orders' => ~last'.success]_vars

\* C22 witness: a /verify-payment for an id that matches no stored order has
\* just been answered, without success, while another order is paid at the
\* gateway.
C22_Witness ==
    /\ last.op = "verify" /\ last.id \notin DOMAIN orders
    /\ last.code = 500 /\ ~last.success
    /\ \E id \in DOMAIN orders : gateway[id] = "PAID"

\* C23: when every /create-cashfree-order and /verify-payment comes from a
\* caller who owns none of the orders, no order gets a payment session at
\* the gateway and every order keeps the paymentStatus and status it was
\* created with.
C23_OnlyOwnerActsOnOrder ==
    \A id \in DOMAIN orders :
        /\ orders[id].userEmail # Mallory.email
        /\ gateway[id] = "NONE"
        /\ orders[id].paymentStatus = "PENDING"
        /\ orders[id].status = "Processing"

\* no stored user is an admin and no signed token carries the role admin
NoAdmin ==
    /\ \A e \in Emails : users[e].role # "admin"
    /\ \A t \in issued : t.role # "admin"

\* C24: a user's role becomes "admin" only in a step that answers a
\* /makeadmin with success to a caller whose token /login signed with role
\* admin; a successful /signup stores exactly one new user, with role "user",
\* whatever the body's role; a /makeadmin whose token is not a signed admin
\* token is answered without success (403 for a signed token of another
\* role) and changes no user; and from a state without an admin user or
\* admin token no step leads to one.
C24_AdminOnlyThroughAdmin ==
    [][/\ \A e \in Emails :
             (users'[e].role = "admin" /\ users[e].role # "admin")
             => (/\ last'.op = "makeadmin" /\ last'.success
                 /\ last'.by \in issued /\ last'.by.role = "admin")
       /\ (Answers("signup") /\ last'.success)
          => \E e \in Emails :
                /\ users[e] = NoUser
                /\ users'[e].role = "user"
                /\ \A o \in Emails \ {e} : users'[o] = users[o]
       /\ (Answers("makeadmin")
             /\ (last'.by \notin issued \/ last'.by.role # "admin"))
          => (/\ ~last'.success /\ users' = users
              /\ last'.by \in issued => last'.code = 403)
       /\ NoAdmin => NoAdmin']_vars

\* C24 witness: in a store without an admin, where Alice and Bob have signed
\* up and logged in, a /makeadmin with a signed user token has just been
\* refused with 403.
C24_Witness ==
    /\ NoAdmin
    /\ users["alice"].role = "user" /\ users["bob"].role = "user"
    /\ Cardinality(issued) = 2
    /\ last.op = "makeadmin" /\ last.code = 403
    /\ last.by \in issued /\ last.msg = "Admin access required"

====
